---- MODULE Spec2Model ----
(***************************************************************************)
(* Deskulpt canvas: the widgets store, the blob URLs it owns and the three *)
(* backend event listeners that mutate them.                               *)
(*                                                                         *)
(*   render widget   useRenderWidgetListener.tsx                           *)
(*   update catalog  useUpdateWidgetCatalogListener.ts                     *)
(*   update settings useUpdateSettingsListener.ts                          *)
(*                                                                         *)
(* The render listener is an async function: everything up to              *)
(* `await import(moduleBlobUrl)` runs in one step (RenderWidget), the      *)
(* continuation after the await runs in a later step (ImportResolved or    *)
(* ImportRejected), and any other listener may run in between.             *)
(***************************************************************************)
EXTENDS Integers, Sequences, FiniteSets

\* ---------------------------------------------------------------- bounds
\* Number of render events delivered in one behaviour.
MaxReports == 2
\* The revocation counter of a blob URL saturates here (history counter).
RevokeCap == 2

\* ------------------------------------------------------ input alphabets
Ids == {"A", "B"}
\* event.payload.code of a render event: the listener branches on the type
\* only, the content goes into a blob (ok) or an error display (err)
Codes == {[type |-> "err", content |-> "message"],
          [type |-> "ok", content |-> "source"]}
\* event.payload of a settings event: a whole snapshot, which the listener
\* stores without looking inside
SettingsPayloads == {"snapshot0", "snapshot1"}
\* window.__DESKULPT_INTERNALS__.initialSettings
InitialSettings == "snapshot0"

\* `undefined` where a blob URL is expected (URLs are numbered from 1)
Undefined == 0
\* store value of an id that is not a key of the widgets store
NoEntry == [component |-> [kind |-> "none", url |-> Undefined],
            apisBlobUrl |-> Undefined, moduleBlobUrl |-> Undefined]

VARIABLES
    widgets,     \* useWidgetsStore state: id -> WidgetState, or NoEntry
    settings,    \* useSettingsStore state (per-widget part)
    blobs,       \* every URL made by URL.createObjectURL, by creation order
    pending,     \* render listeners suspended at `await import(...)`
    hist         \* history: per id, the events processed for that id

vars == <<widgets, settings, blobs, pending, hist>>

\* ------------------------------------------------------------ components
\* module.default is a different object for each imported blob URL
BundlingError == [kind |-> "bundlingError", url |-> Undefined]
ImportError == [kind |-> "importError", url |-> Undefined]
DefaultExport(moduleBlobUrl) == [kind |-> "module", url |-> moduleBlobUrl]

\* ------------------------------------------------------------- blob URLs
\* A URL is its index in blobs.
Urls == 1..Len(blobs)
Live(u) == blobs[u].revoked = 0
LiveUrls(kind, id) ==
    {u \in Urls : blobs[u].kind = kind /\ blobs[u].id = id /\ Live(u)}

Bump(n) == IF n < RevokeCap THEN n + 1 ELSE RevokeCap

\* URL.createObjectURL(new Blob(...)): the registry after the call; the
\* new URL is Len(b) + 1.
CreateObjectURL(b, kind, id) ==
    Append(b, [kind |-> kind, id |-> id, revoked |-> 0])

\* URL.revokeObjectURL(u); revoking undefined is never attempted by the
\* callers, they test for it first.
RevokeObjectURL(b, u) == [b EXCEPT ![u].revoked = Bump(@)]

\* ----------------------------------------------------------- the history
Event(t, apis, module, prev, clean) ==
    [t |-> t, apisBlobUrl |-> apis, moduleBlobUrl |-> module,
     prev |-> prev, clean |-> clean]

IsReport(e) == e.t \in {"err", "ok"}
ReportsOf(id) == {k \in 1..Len(hist[id]) : IsReport(hist[id][k])}
RECURSIVE SumReports(_)
SumReports(S) ==
    IF S = {} THEN 0
    ELSE LET i == CHOOSE x \in S : TRUE
         IN Cardinality(ReportsOf(i)) + SumReports(S \ {i})
ReportCount == SumReports(Ids)

\* ------------------------------------------------------------------ Init
Init ==
    /\ widgets = [i \in Ids |-> NoEntry]
    /\ settings = InitialSettings
    /\ blobs = <<>>
    /\ pending = {}
    /\ hist = [i \in Ids |-> <<>>]

\* -------------------------------------------------- render widget event
\* `id in widgets` (line 18): the APIs blob URL is reused.
InWidgetsNever(id) == FALSE
InWidgets(id) == widgets[id] # NoEntry

\* mutant of BlobsAfterApis: the old module URL is kept (as if an unchanged
\* source needed no new URL)
BlobsAfterApisKeepModule(id) ==
    IF InWidgets(id) THEN blobs ELSE CreateObjectURL(blobs, "apis", id)
\* Lines 17-35: the registry after the apis branch, and the apis URL.
BlobsAfterApis(id) ==
    IF InWidgets(id)
    THEN IF widgets[id].moduleBlobUrl # Undefined
         THEN RevokeObjectURL(blobs, widgets[id].moduleBlobUrl)
         ELSE blobs
    ELSE CreateObjectURL(blobs, "apis", id)

ApisBlobUrl(id) ==
    IF InWidgets(id) THEN widgets[id].apisBlobUrl ELSE Len(blobs) + 1

\* Lines 38-52: the state written for a bundling error.
BundlingErrorStateSpread(id, apisBlobUrl) ==
    IF widgets[id] = NoEntry
    THEN [component |-> BundlingError, apisBlobUrl |-> apisBlobUrl,
          moduleBlobUrl |-> Undefined]
    ELSE [widgets[id] EXCEPT !.component = BundlingError]
BundlingErrorState(id, apisBlobUrl) ==
    [component |-> BundlingError, apisBlobUrl |-> apisBlobUrl,
     moduleBlobUrl |-> Undefined]

\* Lines 71-85: the state written when the import fails.
ImportErrorStateKeepModule(l) ==
    [component |-> ImportError, apisBlobUrl |-> l.apisBlobUrl,
     moduleBlobUrl |-> l.moduleBlobUrl]
ImportErrorState(l) ==
    [component |-> ImportError, apisBlobUrl |-> l.apisBlobUrl,
     moduleBlobUrl |-> Undefined]

\* Lines 89-99: the state written when the import succeeds.
RenderedState(l) ==
    [component |-> DefaultExport(l.moduleBlobUrl), apisBlobUrl |-> l.apisBlobUrl,
     moduleBlobUrl |-> l.moduleBlobUrl]

\* history fields of a report: the apis URL the store held on receipt,
\* and whether the id had no entry and no live URL at all on receipt
PrevApis(id) == IF InWidgets(id) THEN widgets[id].apisBlobUrl ELSE Undefined
Clean(id) ==
    /\ widgets[id] = NoEntry
    /\ LiveUrls("apis", id) = {}
    /\ LiveUrls("module", id) = {}

\* The listener from its start to its first suspension (lines 14-65), or to
\* its return in the err branch (line 53).
RenderWidget(id, code) ==
    /\ ReportCount < MaxReports
    /\ LET apisBlobUrl == ApisBlobUrl(id)
           b1 == BlobsAfterApis(id)
       IN IF code.type = "err"
          THEN /\ widgets' = [widgets EXCEPT
                                ![id] = BundlingErrorState(id, apisBlobUrl)]
               /\ blobs' = b1
               /\ pending' = pending
               /\ hist' = [hist EXCEPT ![id] = Append(@,
                             Event("err", apisBlobUrl, Undefined,
                                   PrevApis(id), Clean(id)))]
          ELSE LET moduleBlobUrl == Len(b1) + 1
               IN /\ blobs' = CreateObjectURL(b1, "module", id)
                  /\ pending' = pending \cup
                        {[id |-> id,
                          apisBlobUrl |-> apisBlobUrl,
                          moduleBlobUrl |-> moduleBlobUrl]}
                  /\ widgets' = widgets
                  /\ hist' = [hist EXCEPT ![id] = Append(@,
                                Event("ok", apisBlobUrl,
                                      moduleBlobUrl, PrevApis(id),
                                      Clean(id)))]
    /\ UNCHANGED settings

\* The continuation after `await import(...)` when the module loaded and
\* has a default export (lines 89-99).
ImportResolvedNoSpread(l) ==
    /\ l \in pending
    /\ pending' = pending \ {l}
    /\ widgets' = [i \in Ids |-> IF i = l.id THEN RenderedState(l)
                                  ELSE NoEntry]
    /\ hist' = [hist EXCEPT ![l.id] = Append(@,
                  Event("loaded", l.apisBlobUrl, l.moduleBlobUrl,
                        Undefined, FALSE))]
    /\ UNCHANGED <<settings, blobs>>
ImportResolved(l) ==
    /\ l \in pending
    /\ pending' = pending \ {l}
    /\ widgets' = [widgets EXCEPT ![l.id] = RenderedState(l)]
    /\ hist' = [hist EXCEPT ![l.id] = Append(@,
                  Event("loaded", l.apisBlobUrl, l.moduleBlobUrl,
                        Undefined, FALSE))]
    /\ UNCHANGED <<settings, blobs>>

\* The continuation when the import threw or the module has no default
\* export (lines 69-87).
ImportRejectedNoRevoke(l) ==
    /\ l \in pending
    /\ pending' = pending \ {l}
    /\ widgets' = [widgets EXCEPT ![l.id] = ImportErrorState(l)]
    /\ hist' = [hist EXCEPT ![l.id] = Append(@,
                  Event("failed", l.apisBlobUrl, l.moduleBlobUrl,
                        Undefined, FALSE))]
    /\ UNCHANGED <<settings, blobs>>
ImportRejected(l) ==
    /\ l \in pending
    /\ pending' = pending \ {l}
    /\ blobs' = RevokeObjectURL(blobs, l.moduleBlobUrl)
    /\ widgets' = [widgets EXCEPT ![l.id] = ImportErrorState(l)]
    /\ hist' = [hist EXCEPT ![l.id] = Append(@,
                  Event("failed", l.apisBlobUrl, l.moduleBlobUrl,
                        Undefined, FALSE))]
    /\ UNCHANGED settings

\* -------------------------------------------------- update catalog event
\* Lines 12-23: the filter callback revokes the URLs of every stored widget
\* whose id is not a key of the payload.
RECURSIVE RevokeAll(_, _)
RevokeAll(b, S) ==
    IF S = {} THEN b
    ELSE LET u == CHOOSE x \in S : TRUE
         IN RevokeAll(RevokeObjectURL(b, u), S \ {u})

Removed(payload) == {i \in Ids : widgets[i] # NoEntry /\ i \notin payload}

UrlsOf(S) ==
    {widgets[i].apisBlobUrl : i \in S}
      \cup {widgets[i].moduleBlobUrl :
              i \in {j \in S : widgets[j].moduleBlobUrl # Undefined}}

\* history: a catalog event that has no key i is recorded for i, unless
\* nothing has happened to i since the last such record (or ever).
OmitEvent(i) ==
    Event("omit", Undefined, Undefined, PrevApis(i), FALSE)
Omits(payload, i) ==
    /\ i \notin payload
    /\ hist[i] # <<>>
    /\ hist[i][Len(hist[i])].t # "omit"

UpdateWidgetCatalogFromPayload(payload) ==
    /\ blobs' = RevokeAll(blobs, UrlsOf(Removed(payload)))
    /\ widgets' = [i \in Ids |->
                     IF i \notin payload THEN NoEntry
                     ELSE IF widgets[i] # NoEntry THEN widgets[i]
                     ELSE [NoEntry EXCEPT !.component.kind = "unrendered"]]
    /\ hist' = [i \in Ids |-> IF Omits(payload, i)
                               THEN Append(hist[i], OmitEvent(i))
                               ELSE hist[i]]
    /\ UNCHANGED <<settings, pending>>
UpdateWidgetCatalog(payload) ==
    /\ blobs' = RevokeAll(blobs, UrlsOf(Removed(payload)))
    /\ widgets' = [i \in Ids |->
                     IF i \in Removed(payload) THEN NoEntry ELSE widgets[i]]
    /\ hist' = [i \in Ids |-> IF Omits(payload, i)
                               THEN Append(hist[i], OmitEvent(i))
                               ELSE hist[i]]
    /\ UNCHANGED <<settings, pending>>

\* ------------------------------------------------- update settings event
UpdateSettingsAndReset(payload) ==
    /\ settings' = payload
    /\ widgets' = [i \in Ids |-> NoEntry]
    /\ UNCHANGED <<blobs, pending, hist>>
UpdateSettings(payload) ==
    /\ settings' = payload
    /\ UNCHANGED <<widgets, blobs, pending, hist>>

\* ------------------------------------------------------------------ Next
Next ==
    \/ \E id \in Ids, code \in Codes : RenderWidget(id, code)
    \/ \E l \in pending : ImportResolved(l)
    \/ \E l \in pending : ImportRejected(l)
    \/ \E payload \in SUBSET Ids : UpdateWidgetCatalog(payload)
    \/ \E payload \in SettingsPayloads : UpdateSettings(payload)

\* ----------------------------------------- state of the other components
VARIABLES
    resizeCall,       \* a call of computeResizedGeometry and what it returned
    widgetSettings,   \* WidgetContainer: useSettingsStore state.widgets[id]
    geometry,         \* WidgetContainer: the local geometry state
    resizeStartRef,   \* WidgetContainer: resizeStartRef.current
    gesture,          \* the drag or resize in progress (library state)
    outbox,           \* calls of deskulptSettings.commands.update
    view,             \* what the last render of the container returned
    dirty,            \* history: a gesture callback set the local geometry
                      \* after the last settings effect
    catalogStore,     \* manager: useWidgetsStore state, key -> value
    settingsStore,    \* useSettingsStore state, key -> value
    lastPush,         \* history: the last backend event processed
    fetchIdRef,       \* useLogs: fetchIdRef.current
    entries,          \* useLogs: the entries state
    cursor,           \* useLogs: the cursor state
    hasMore,          \* useLogs: the hasMore state
    isFetching,       \* useLogs: the isFetching state
    inflight,         \* useLogs: calls of fetchLogs suspended at the await
    calls,            \* history: number of refresh and fetchMore calls
    lastOp,           \* history: what the last step of useLogs was
    shown,            \* per id, what the error boundary of its container shows
    renderErrors,     \* the widget ids logged by onRenderError, in order
    treeMounted,      \* the tree of containers is mounted
    mounts,           \* the mounts of the node that owns the listener hooks
    handled,          \* history: the listeners that ran for the last event
    tracked,          \* catalog listener: useWidgetsStore state, id -> entry
    lastCatalogEvent, \* history: the last catalog event and the state before it
    listenerFile,     \* which of the two catalog listeners is mounted
    tasks,            \* SETUP_TASKS.tasks
    ready,            \* SETUP_TASKS.ready
    hooks,            \* per setup task, the effect of its hook and its listen promise
    setupMounts,      \* history: number of effect runs of the setup task hooks
    lastIssue,        \* history: the state in which completeSetup was last issued
    batch,            \* history: the payload of the last renderWidgets event
    backend,          \* per provider, the backend's snapshot (a version)
    read,             \* provider: the read command of the first effect
    provStore,        \* provider: the store state, or NoStore while store is null
    listener          \* provider: the listen call of the second effect

gvars == <<resizeCall>>
cvars == <<widgetSettings, geometry, resizeStartRef, gesture, outbox, view,
           dirty>>
svars == <<catalogStore, settingsStore, lastPush>>
lvars == <<fetchIdRef, entries, cursor, hasMore, isFetching, inflight, calls,
           lastOp>>
bvars == <<shown, renderErrors, treeMounted>>
uvars == <<mounts, handled>>
kvars == <<tracked, lastCatalogEvent, listenerFile>>
tvars == <<tasks, ready, hooks, setupMounts, lastIssue>>
rvars == <<batch>>
pvars == <<backend, read, provStore, listener>>
allvars == <<vars, gvars, cvars, svars, lvars, bvars, uvars, kvars, tvars,
             rvars, pvars>>
\* what the steps of one component leave unchanged
NotListeners == <<gvars, cvars, svars, lvars, bvars, uvars, kvars, tvars,
                  rvars, pvars>>
NotGeometry == <<vars, cvars, svars, lvars, bvars, uvars, kvars, tvars,
                 rvars, pvars>>
NotContainer == <<vars, gvars, svars, lvars, bvars, uvars, kvars, tvars,
                  rvars, pvars>>
NotStores == <<vars, gvars, cvars, lvars, bvars, uvars, kvars, tvars, rvars,
               pvars>>
NotLogs == <<vars, gvars, cvars, svars, bvars, uvars, kvars, tvars, rvars,
             pvars>>
NotBoundaries == <<vars, gvars, cvars, svars, lvars, uvars, kvars, tvars,
                   rvars, pvars>>
NotSubscriptions == <<vars, gvars, cvars, svars, lvars, bvars, kvars, tvars,
                      rvars, pvars>>
NotCatalog == <<vars, gvars, cvars, svars, lvars, bvars, uvars, tvars, rvars,
                pvars>>
NotSetup == <<vars, gvars, cvars, svars, lvars, bvars, uvars, kvars, rvars,
              pvars>>
NotBatch == <<gvars, cvars, svars, lvars, bvars, uvars, kvars, tvars, pvars>>
NotProvider == <<vars, gvars, cvars, svars, lvars, bvars, uvars, kvars,
                 tvars, rvars>>

\* null / undefined of a value that is otherwise an object
Null == [null |-> TRUE]
NoCall == [geometry |-> Null, direction |-> "none", delta |-> Null,
           results |-> <<>>]
\* after a resize has stopped, delta keeps the delta of the stop callback
NoGesture == [kind |-> "none", direction |-> "none", delta |-> Null,
              start |-> Null, position |-> Null, frames |-> 0]
\* nothing is mounted and nothing is called
GeometryIdle == resizeCall = NoCall
ContainerIdle ==
    /\ widgetSettings = Null
    /\ geometry = Null
    /\ resizeStartRef = Null
    /\ gesture = NoGesture
    /\ outbox = <<>>
    /\ view = "null"
    /\ dirty = FALSE

\* The listeners alone: no container is mounted.
\* a key that a store does not have
Absent == 0
StoreKeys == {"k1", "k2"}
NoPush == [store |-> "none", payload |-> [k \in StoreKeys |-> Absent]]
StoresIdle ==
    /\ catalogStore = [k \in StoreKeys |-> Absent]
    /\ settingsStore = [k \in StoreKeys |-> Absent]
    /\ lastPush = NoPush

\* a null cursor (cursors are offsets from 1)
NoCursor == 0
\* the initial values of the useState and useRef hooks of useLogs
LogsIdle ==
    /\ fetchIdRef = 0
    /\ entries = <<>>
    /\ cursor = NoCursor
    /\ hasMore = FALSE
    /\ isFetching = FALSE
    /\ inflight = {}
    /\ calls = 0
    /\ lastOp = "none"

\* no container is rendered
BoundariesIdle ==
    /\ shown = [i \in Ids |-> "none"]
    /\ renderErrors = <<>>
    /\ treeMounted = TRUE

\* the node with the listener hooks has never been mounted
SubscriptionsIdle ==
    /\ mounts = <<>>
    /\ handled = {}

\* an id that is not a key of the store; settings 0 is `undefined`
NotTracked == [present |-> FALSE, settings |-> 0]
NoCatalogEvent == [kind |-> "none", before |-> [i \in Ids |-> NotTracked]]
\* no catalog listener is mounted
CatalogIdle ==
    /\ tracked = [i \in Ids |-> NotTracked]
    /\ lastCatalogEvent = NoCatalogEvent
    /\ listenerFile = "none"

\* the setup tasks of the canvas (useRenderWidgetListener.tsx:11,
\* useUpdateWidgetCatalogListener.ts:6)
TaskNames == {"event:renderWidget", "event:update"}
NoHook == [mounted |-> FALSE, listen |-> "none"]
NoIssue == [issued |-> FALSE, tasks |-> {}, mounted |-> {}, subscribed |-> {}]
\* no setup task is registered
SetupIdle ==
    /\ tasks = {}
    /\ ready = {}
    /\ hooks = [t \in TaskNames |-> NoHook]
    /\ setupMounts = 0
    /\ lastIssue = NoIssue

\* no renderWidgets event has been received
BatchIdle == batch = <<>>

\* WidgetsStoreProvider and SettingsStoreProvider
Providers == {"widgets", "settings"}
\* `store === null`
NoStore == -1
NoRead == [state |-> "idle", value |-> NoStore]
\* the provider is not mounted
ProviderIdle ==
    /\ backend = [p \in Providers |-> 0]
    /\ read = [p \in Providers |-> NoRead]
    /\ provStore = [p \in Providers |-> NoStore]
    /\ listener = [p \in Providers |-> "none"]

\* the other components idle
OnlyListeners ==
    /\ GeometryIdle /\ ContainerIdle /\ StoresIdle /\ LogsIdle /\ BoundariesIdle
    /\ SubscriptionsIdle
    /\ CatalogIdle
    /\ SetupIdle
    /\ BatchIdle
    /\ ProviderIdle
OnlyGeometry ==
    /\ Init /\ ContainerIdle /\ StoresIdle /\ LogsIdle /\ BoundariesIdle
    /\ SubscriptionsIdle
    /\ CatalogIdle
    /\ SetupIdle
    /\ BatchIdle
    /\ ProviderIdle
OnlyContainer ==
    /\ Init /\ GeometryIdle /\ StoresIdle /\ LogsIdle /\ BoundariesIdle
    /\ SubscriptionsIdle
    /\ CatalogIdle
    /\ SetupIdle
    /\ BatchIdle
    /\ ProviderIdle
OnlyStores ==
    /\ Init /\ GeometryIdle /\ ContainerIdle /\ LogsIdle /\ BoundariesIdle
    /\ SubscriptionsIdle
    /\ CatalogIdle
    /\ SetupIdle
    /\ BatchIdle
    /\ ProviderIdle
OnlyLogs ==
    /\ Init /\ GeometryIdle /\ ContainerIdle /\ StoresIdle /\ BoundariesIdle
    /\ SubscriptionsIdle
    /\ CatalogIdle
    /\ SetupIdle
    /\ BatchIdle
    /\ ProviderIdle
OnlyBoundaries ==
    /\ Init /\ GeometryIdle /\ ContainerIdle /\ StoresIdle /\ LogsIdle
    /\ SubscriptionsIdle
    /\ CatalogIdle
    /\ SetupIdle
    /\ BatchIdle
    /\ ProviderIdle
OnlySubscriptions ==
    /\ Init /\ GeometryIdle /\ ContainerIdle /\ StoresIdle /\ LogsIdle
    /\ BoundariesIdle
    /\ CatalogIdle
    /\ SetupIdle
    /\ BatchIdle
    /\ ProviderIdle
OnlyCatalog ==
    /\ Init
    /\ GeometryIdle
    /\ ContainerIdle
    /\ StoresIdle
    /\ LogsIdle
    /\ BoundariesIdle
    /\ SubscriptionsIdle
    /\ SetupIdle
    /\ BatchIdle
    /\ ProviderIdle
OnlySetup ==
    /\ Init
    /\ GeometryIdle
    /\ ContainerIdle
    /\ StoresIdle
    /\ LogsIdle
    /\ BoundariesIdle
    /\ SubscriptionsIdle
    /\ CatalogIdle
    /\ BatchIdle
    /\ ProviderIdle
OnlyProvider ==
    /\ Init
    /\ GeometryIdle
    /\ ContainerIdle
    /\ StoresIdle
    /\ LogsIdle
    /\ BoundariesIdle
    /\ SubscriptionsIdle
    /\ CatalogIdle
    /\ SetupIdle
    /\ BatchIdle

ListenersInit == Init /\ OnlyListeners

Spec == ListenersInit /\ [][Next /\ UNCHANGED NotListeners]_allvars

\* ================================================================ claims
Last(h) == h[Len(h)]
ModuleLive(i) == LiveUrls("module", i)
ApisLive(i) == LiveUrls("apis", i)
\* position in hist[i] of the report that created module URL m
ReportOf(i, m) ==
    CHOOSE k \in 1..Len(hist[i]) :
        hist[i][k].t = "ok" /\ hist[i][k].moduleBlobUrl = m
IsSettle(e) == e.t \in {"loaded", "failed"}
\* events that write widgets[i]: after them the store holds e.apisBlobUrl
IsWrite(e) == e.t \in {"err", "loaded", "failed"}

\* C1: every widget id has at most one live APIs blob URL and at most one
\* live module blob URL, in every reachable state.
C1_OneLivePerId ==
    \A i \in Ids :
        /\ Cardinality(ApisLive(i)) <= 1
        /\ Cardinality(ModuleLive(i)) <= 1

\* C2: when the last two render events of an id are both ok (p then q),
\* nothing but their two import continuations has happened since p, the
\* import of p has settled and the import of q has resolved, the only live
\* module URL of the id is the one of q and the one of p is revoked.
C2_Case(i, p, q) ==
    LET h == hist[i]
    IN /\ p < q
       /\ h[p].t = "ok"
       /\ h[q].t = "ok"
       /\ \A k \in (p + 1)..Len(h) :
             k # q => /\ IsSettle(h[k])
                      /\ h[k].moduleBlobUrl \in
                            {h[p].moduleBlobUrl, h[q].moduleBlobUrl}
       /\ \E k \in (p + 1)..Len(h) :
             IsSettle(h[k]) /\ h[k].moduleBlobUrl = h[p].moduleBlobUrl
       /\ \E k \in (q + 1)..Len(h) :
             h[k].t = "loaded" /\ h[k].moduleBlobUrl = h[q].moduleBlobUrl
C2_SecondReportWins ==
    \A i \in Ids : \A p, q \in 1..Len(hist[i]) :
        C2_Case(i, p, q) =>
            /\ ModuleLive(i) = {hist[i][q].moduleBlobUrl}
            /\ ~Live(hist[i][p].moduleBlobUrl)

\* C3: when the last thing that happened to an id is a catalog event without
\* that id, the store has no entry for it and none of its URLs is live.
C3_Case(i) == hist[i] # <<>> /\ Last(hist[i]).t = "omit"
C3_NothingLeftAfterCatalog ==
    \A i \in Ids :
        C3_Case(i) =>
            /\ widgets[i] = NoEntry
            /\ ApisLive(i) = {}
            /\ ModuleLive(i) = {}

\* C4: no blob URL is revoked more than once.
C4_RevokedAtMostOnce == \A u \in Urls : blobs[u].revoked <= 1

\* C5: for an id with no entry and no live URL, an err render event followed
\* directly by an ok render event whose import resolves leaves the id
\* rendered from that import, with that import's module URL as its only live
\* module URL, and with the APIs URL created by the err event stored, live
\* and the only APIs URL created for the id since.
C5_Case(i) ==
    LET h == hist[i]
        n == Len(h)
    IN /\ n >= 3
       /\ h[n - 2].t = "err"
       /\ h[n - 2].clean
       /\ h[n - 1].t = "ok"
       /\ h[n].t = "loaded"
       /\ h[n].moduleBlobUrl = h[n - 1].moduleBlobUrl
C6_Case(i) == hist[i] # <<>> /\ Last(hist[i]).t = "failed"
C7_Case(i) == hist[i] # <<>> /\ Last(hist[i]).t = "err"
C8_Allowed(i) ==
    LET h == hist'[i]
        n == Len(h)
        e == h[n]
        w == CHOOSE k \in 1..Len(hist[i]) :
                 /\ IsWrite(hist[i][k])
                 /\ \A j \in (k + 1)..Len(hist[i]) : ~IsWrite(hist[i][j])
    IN /\ n = Len(hist[i]) + 1
       /\ \/ e.t \in {"err", "ok", "omit"}
          \/ IsSettle(e) /\ ReportOf(i, e.moduleBlobUrl) > w
C8_ErrorIsTerminal ==
    [][\A i \in Ids :
         (/\ widgets[i].component \in {BundlingError, ImportError}
          /\ widgets'[i] # widgets[i]) => C8_Allowed(i)]_vars

\* C9: while an id keeps its store entry, the APIs URL stored for it never
\* changes.
C9_ApisUrlKept ==
    [][\A i \in Ids :
         (widgets[i] # NoEntry /\ widgets'[i] # NoEntry)
             => widgets'[i].apisBlobUrl = widgets[i].apisBlobUrl]_vars

\* C10: a step that changes the settings store creates no blob URL, revokes
\* none, and leaves the widgets store and the suspended imports unchanged.
C10_SettingsOnly ==
    [][settings' # settings =>
         (widgets' = widgets /\ blobs' = blobs /\ pending' = pending)]_vars
\* settings were replaced while a rendered widget holds live URLs and an
\* import is suspended
C10_Witness ==
    /\ settings # InitialSettings
    /\ pending # {}
    /\ \E i \in Ids : widgets[i].component.kind = "module"
                        /\ ModuleLive(i) # {}

BlobsOf(b, reg) ==
    {<<u, reg[u]>> : u \in {v \in 1..Len(reg) : reg[v].id = b}}
C12_StepOf(a) ==
    /\ Len(hist'[a]) = Len(hist[a]) + 1
    /\ hist'[a][Len(hist'[a])].t \in {"err", "ok", "loaded", "failed"}
C12_OtherIdsUntouched ==
    [][\A a \in Ids : C12_StepOf(a) =>
         \A b \in Ids \ {a} :
            /\ widgets'[b] = widgets[b]
            /\ BlobsOf(b, blobs') = BlobsOf(b, blobs)
            /\ {l \in pending' : l.id = b} = {l \in pending : l.id = b}
            /\ hist'[b] = hist[b]]_vars
\* both ids are rendered and the import of one settled after the other
\* had its entry
C12_Witness ==
    \E a, b \in Ids :
        /\ a # b
        /\ widgets[a].component.kind = "module"
        /\ widgets[b].component.kind = "module"

\* C24: an ok render event for an id whose entry holds a module blob URL
\* revokes that URL and creates a new, different one, also when the source is
\* the same as before.
C24_Step(i) ==
    /\ Len(hist'[i]) = Len(hist[i]) + 1
    /\ hist'[i][Len(hist'[i])].t = "ok"
    /\ widgets[i].moduleBlobUrl # Undefined
C24_ModuleUrlRotated ==
    [][\A i \in Ids : C24_Step(i) =>
         LET old == widgets[i].moduleBlobUrl
             new == Len(blobs')
         IN /\ blobs'[old].revoked = Bump(blobs[old].revoked)
            /\ blobs'[old].revoked > 0
            /\ Len(blobs') = Len(blobs) + 1
            /\ new # old
            /\ blobs'[new] = [kind |-> "module", id |-> i, revoked |-> 0]
            /\ \E l \in pending' \ pending :
                  l.id = i /\ l.moduleBlobUrl = new]_vars
C24_Witness ==
    \E i \in Ids :
        LET h == hist[i]
        IN /\ Len(h) >= 3
           /\ h[Len(h)].t = "ok"
           /\ h[Len(h) - 1].t = "loaded"
           /\ widgets[i].moduleBlobUrl = h[Len(h) - 1].moduleBlobUrl
           /\ ~Live(widgets[i].moduleBlobUrl)
           /\ Live(h[Len(h)].moduleBlobUrl)

\* C29: once no import is in flight for an id that has an entry, the stored
\* component is the one of the last render event received for that id: the
\* bundling error display for an err event, and for an ok event the default
\* export of the module made from it or the import error display.
LastReport(i) ==
    hist[i][CHOOSE k \in ReportsOf(i) : \A j \in ReportsOf(i) : j <= k]
C29_Case(i) ==
    /\ {l \in pending : l.id = i} = {}
    /\ InWidgets(i)
    /\ ReportsOf(i) # {}
C29_LatestReportStored ==
    \A i \in Ids :
        C29_Case(i) =>
            IF LastReport(i).t = "err"
            THEN widgets[i].component = BundlingError
            ELSE widgets[i].component \in
                    {DefaultExport(LastReport(i).moduleBlobUrl), ImportError}

\* C30: when a catalog event without an id was processed while an import for
\* that id was in flight, and no render event for the id came later, then
\* after the import has settled the store has no entry for the id and none of
\* its URLs is live.
C30_Case(i) ==
    LET h == hist[i]
    IN /\ {l \in pending : l.id = i} = {}
       /\ \E p, k, s \in 1..Len(h) :
             /\ p < k
             /\ k < s
             /\ h[p].t = "ok"
             /\ h[k].t = "omit"
             /\ IsSettle(h[s])
             /\ h[s].moduleBlobUrl = h[p].moduleBlobUrl
             /\ \A j \in (k + 1)..Len(h) : ~IsReport(h[j])
C30_NoEntryAfterOmit ==
    \A i \in Ids :
        C30_Case(i) =>
            /\ widgets[i] = NoEntry
            /\ ApisLive(i) = {}
            /\ ModuleLive(i) = {}

\* C31: every blob URL recorded in an entry of the widgets store is live
\* (not revoked), in every reachable state: also while a newer load of the
\* same id is suspended at its import, and after an import failure.
C31_StoredUrlsLive ==
    \A i \in Ids :
        InWidgets(i) =>
            /\ Live(widgets[i].apisBlobUrl)
            /\ widgets[i].moduleBlobUrl # Undefined
                  => Live(widgets[i].moduleBlobUrl)

\* ============================================ computeResizedGeometry
\* ------------------------------------------------------------ bounds
\* x and y of an input geometry are in -CoordMax..CoordMax
CoordMax == 1
\* width and height of an input geometry are in 1..SizeMax
SizeMax == 2
\* both components of a delta are in -DeltaMax..DeltaMax
DeltaMax == 1

\* ResizeDirection of re-resizable
Directions == {"top", "bottom", "left", "right",
               "topLeft", "topRight", "bottomLeft", "bottomRight"}
Geometries ==
    [x : -CoordMax..CoordMax, y : -CoordMax..CoordMax,
     width : 1..SizeMax, height : 1..SizeMax]
\* NumberSize of re-resizable
Deltas == [width : -DeltaMax..DeltaMax, height : -DeltaMax..DeltaMax]

\* mutants of computeResizedGeometry
ComputeTopRightFallsThrough(g, direction, delta) ==
    LET newWidth == g.width + delta.width
        newHeight == g.height + delta.height
    IN CASE direction = "top" ->
              [x |-> g.x, y |-> g.y - delta.height,
               width |-> newWidth, height |-> newHeight]
         [] direction \in {"left", "bottomLeft"} ->
              [x |-> g.x - delta.width, y |-> g.y,
               width |-> newWidth, height |-> newHeight]
         [] direction = "topLeft" ->
              [x |-> g.x - delta.width, y |-> g.y - delta.height,
               width |-> newWidth, height |-> newHeight]
         [] OTHER ->
              [x |-> g.x, y |-> g.y,
               width |-> newWidth, height |-> newHeight]
ComputeLeftAddsDelta(g, direction, delta) ==
    LET newWidth == g.width + delta.width
        newHeight == g.height + delta.height
    IN CASE direction \in {"top", "topRight"} ->
              [x |-> g.x, y |-> g.y - delta.height,
               width |-> newWidth, height |-> newHeight]
         [] direction \in {"left", "bottomLeft"} ->
              [x |-> g.x + delta.width, y |-> g.y,
               width |-> newWidth, height |-> newHeight]
         [] direction = "topLeft" ->
              [x |-> g.x - delta.width, y |-> g.y - delta.height,
               width |-> newWidth, height |-> newHeight]
         [] OTHER ->
              [x |-> g.x, y |-> g.y,
               width |-> newWidth, height |-> newHeight]
ComputeClamped(g, direction, delta) ==
    LET newWidth == IF g.width + delta.width < 1 THEN 1
                    ELSE g.width + delta.width
        newHeight == IF g.height + delta.height < 1 THEN 1
                     ELSE g.height + delta.height
    IN CASE direction \in {"top", "topRight"} ->
              [x |-> g.x, y |-> g.y - delta.height,
               width |-> newWidth, height |-> newHeight]
         [] direction \in {"left", "bottomLeft"} ->
              [x |-> g.x - delta.width, y |-> g.y,
               width |-> newWidth, height |-> newHeight]
         [] direction = "topLeft" ->
              [x |-> g.x - delta.width, y |-> g.y - delta.height,
               width |-> newWidth, height |-> newHeight]
         [] OTHER ->
              [x |-> g.x, y |-> g.y,
               width |-> newWidth, height |-> newHeight]

\* computeResizedGeometry (part_010:58-87): the switch of lines 71-84, with
\* newX = x and newY = y where no case assigns them.
ComputeResizedGeometry(g, direction, delta) ==
    LET newWidth == g.width + delta.width
        newHeight == g.height + delta.height
    IN CASE direction \in {"top", "topRight"} ->
              [x |-> g.x, y |-> g.y - delta.height,
               width |-> newWidth, height |-> newHeight]
         [] direction \in {"left", "bottomLeft"} ->
              [x |-> g.x - delta.width, y |-> g.y,
               width |-> newWidth, height |-> newHeight]
         [] direction = "topLeft" ->
              [x |-> g.x - delta.width, y |-> g.y - delta.height,
               width |-> newWidth, height |-> newHeight]
         [] OTHER ->
              [x |-> g.x, y |-> g.y,
               width |-> newWidth, height |-> newHeight]

Negated(delta) == [width |-> 0 - delta.width, height |-> 0 - delta.height]

GeometryInit ==
    /\ OnlyGeometry
    /\ resizeCall \in [geometry : Geometries, direction : Directions,
                        delta : Deltas, results : {<<>>}]

\* computeResizedGeometry(geometry, direction, delta)
Resize ==
    /\ Len(resizeCall.results) = 0
    /\ resizeCall' = [resizeCall EXCEPT !.results =
          <<ComputeResizedGeometry(resizeCall.geometry, resizeCall.direction,
                                   resizeCall.delta)>>]
    /\ UNCHANGED NotGeometry

\* computeResizedGeometry(result, direction, -delta)
ResizeBack ==
    /\ Len(resizeCall.results) = 1
    /\ resizeCall' = [resizeCall EXCEPT !.results = Append(@,
          ComputeResizedGeometry(resizeCall.results[1], resizeCall.direction,
                                 Negated(resizeCall.delta)))]
    /\ UNCHANGED NotGeometry

GeometryNext == Resize \/ ResizeBack

SpecGeometry == GeometryInit /\ [][GeometryNext]_allvars

\* C13: computeResizedGeometry returns width + delta.width and
\* height + delta.height; y - delta.height for top, topLeft and topRight and
\* y otherwise; x - delta.width for left, topLeft and bottomLeft and x
\* otherwise.
C13_Case == Len(resizeCall.results) >= 1
C13_ResizedGeometry ==
    C13_Case =>
        LET g == resizeCall.geometry
            d == resizeCall.delta
            dir == resizeCall.direction
            r == resizeCall.results[1]
        IN /\ r.width = g.width + d.width
           /\ r.height = g.height + d.height
           /\ r.y = IF dir \in {"top", "topLeft", "topRight"}
                    THEN g.y - d.height ELSE g.y
           /\ r.x = IF dir \in {"left", "topLeft", "bottomLeft"}
                    THEN g.x - d.width ELSE g.x
C13_Witness ==
    /\ C13_Case
    /\ resizeCall.direction = "topRight"
    /\ resizeCall.delta.width # 0
    /\ resizeCall.delta.height # 0

\* C14: computeResizedGeometry keeps the opposite edges in place: y + height
\* for directions with top, x + width for directions with left, y for
\* directions with bottom, x for directions with right.
HasTop(dir) == dir \in {"top", "topLeft", "topRight"}
HasBottom(dir) == dir \in {"bottom", "bottomLeft", "bottomRight"}
HasLeft(dir) == dir \in {"left", "topLeft", "bottomLeft"}
HasRight(dir) == dir \in {"right", "topRight", "bottomRight"}
C14_OppositeEdgesFixed ==
    C13_Case =>
        LET g == resizeCall.geometry
            dir == resizeCall.direction
            r == resizeCall.results[1]
        IN /\ HasTop(dir) => r.y + r.height = g.y + g.height
           /\ HasLeft(dir) => r.x + r.width = g.x + g.width
           /\ HasBottom(dir) => r.y = g.y
           /\ HasRight(dir) => r.x = g.x
C14_Witness ==
    /\ C13_Case
    /\ resizeCall.direction = "bottomLeft"
    /\ resizeCall.delta.width # 0
    /\ resizeCall.delta.height # 0
    /\ resizeCall.results[1].x # resizeCall.geometry.x

\* C15: resizing bottomRight by d and then bottomRight by -d returns the
\* geometry unchanged.
C15_Case ==
    /\ Len(resizeCall.results) = 2
    /\ resizeCall.direction = "bottomRight"
C15_RoundTrip == C15_Case => resizeCall.results[2] = resizeCall.geometry
C15_Witness ==
    /\ C15_Case
    /\ resizeCall.delta.width # 0
    /\ resizeCall.delta.height # 0
    /\ resizeCall.results[1] # resizeCall.geometry

\* ===================================================== WidgetContainer
\* One container, of one widget id.  A step is one callback or one store
\* update together with the renders and effects it causes.
\* ------------------------------------------------------------ bounds
\* commands.update is called at most MaxPatches times
MaxPatches == 1
\* a gesture has at most MaxFrames intermediate frames
MaxFrames == 2

\* state.widgets[id] of the settings store, as pushed by the backend
SettingsEntries ==
    {[x |-> 0, y |-> 0, width |-> 2, height |-> 2, isLoaded |-> FALSE],
     [x |-> 0, y |-> 0, width |-> 2, height |-> 2, isLoaded |-> TRUE],
     [x |-> 1, y |-> 0, width |-> 1, height |-> 2, isLoaded |-> TRUE]}
\* DraggableData x, y: positions the pointer takes the element to
DragPositions == {[x |-> 1, y |-> 0], [x |-> 0, y |-> 1]}
\* cumulative deltas reported by re-resizable during a gesture
FrameDeltas ==
    {[width |-> 0, height |-> 0], [width |-> 1, height |-> 0],
     [width |-> -1, height |-> 1]}

\* { x: settings.x, y: settings.y, width: ..., height: ... }
GeometryOf(entry) ==
    [x |-> entry.x, y |-> entry.y,
     width |-> entry.width, height |-> entry.height]

\* useState initial value (part_010:100-109)
InitialGeometry(entry) == IF entry = Null THEN Null ELSE GeometryOf(entry)

\* mutant of RenderOutput: the guard without isLoaded
RenderOutputNoIsLoaded(entry, g) ==
    IF entry = Null \/ g = Null THEN "null" ELSE "body"

\* part_010:191: what the component returns
RenderOutput(entry, g) ==
    IF entry = Null \/ g = Null THEN "null"
    ELSE IF ~entry.isLoaded THEN "null"
    ELSE "body"

ContainerInit ==
    /\ OnlyContainer
    /\ widgetSettings \in SettingsEntries \cup {Null}
    /\ geometry = InitialGeometry(widgetSettings)
    /\ resizeStartRef = Null
    /\ gesture = NoGesture
    /\ outbox = <<>>
    /\ view = RenderOutput(widgetSettings, geometry)
    /\ dirty = FALSE

\* mutant of SettingsEffect: only the position is copied
SettingsEffectPositionOnly(entry, g) ==
    IF entry = Null THEN g
    ELSE IF g = Null THEN GeometryOf(entry)
    ELSE [g EXCEPT !.x = entry.x, !.y = entry.y]

\* the effect of part_010:111-121: the geometry after it has run
SettingsEffect(entry, g) ==
    IF entry = Null THEN g ELSE GeometryOf(entry)

\* The settings store gets a new state.widgets[id]; the component renders,
\* the effect runs and the component renders again.  Returning null unmounts
\* Draggable and Resizable, which ends a gesture without a stop callback.
PushSettings(entry) ==
    /\ widgetSettings' = entry
    /\ geometry' = SettingsEffect(entry, geometry)
    /\ dirty' = IF entry = Null THEN dirty ELSE FALSE
    /\ view' = RenderOutput(entry, geometry')
    /\ gesture' = IF view' = "null" THEN NoGesture ELSE gesture
    /\ UNCHANGED <<resizeStartRef, outbox>>
    /\ UNCHANGED NotContainer

\* react-draggable starts a drag on the handle; no callback of the container
DragStart ==
    /\ view = "body"
    /\ gesture.kind = "none"
    /\ gesture' = [kind |-> "drag", direction |-> "none", delta |-> Null,
                   start |-> geometry,
                   position |-> [x |-> geometry.x, y |-> geometry.y],
                   frames |-> 0]
    /\ UNCHANGED <<widgetSettings, geometry, resizeStartRef, outbox, view,
                   dirty>>
    /\ UNCHANGED NotContainer

\* react-draggable moves the element; no callback of the container
DragMove(position) ==
    /\ gesture.kind = "drag"
    /\ gesture.frames < MaxFrames
    /\ gesture' = [gesture EXCEPT !.position = position,
                                  !.frames = @ + 1]
    /\ UNCHANGED <<widgetSettings, geometry, resizeStartRef, outbox, view,
                   dirty>>
    /\ UNCHANGED NotContainer

\* mutant of DragPatch: the whole geometry is sent
DragPatchWholeGeometry(g, data) == [g EXCEPT !.x = data.x, !.y = data.y]

\* part_010:127: the argument of commands.update for this id
DragPatch(g, data) == [x |-> data.x, y |-> data.y]

\* onDragStop (part_010:123-131), data being the last position
DragStop ==
    /\ gesture.kind = "drag"
    /\ Len(outbox) < MaxPatches
    /\ geometry' = IF geometry = Null THEN geometry
                   ELSE [geometry EXCEPT !.x = gesture.position.x,
                                         !.y = gesture.position.y]
    /\ outbox' = Append(outbox, DragPatch(geometry', gesture.position))
    /\ dirty' = TRUE
    /\ view' = RenderOutput(widgetSettings, geometry')
    /\ gesture' = NoGesture
    /\ UNCHANGED <<widgetSettings, resizeStartRef>>
    /\ UNCHANGED NotContainer

\* onResizeStart (part_010:133-138)
ResizeStart(direction) ==
    /\ view = "body"
    /\ gesture.kind = "none"
    /\ resizeStartRef' = IF geometry = Null THEN resizeStartRef ELSE geometry
    /\ gesture' = [kind |-> "resize", direction |-> direction,
                   delta |-> Null, start |-> geometry,
                   position |-> Null, frames |-> 0]
    /\ UNCHANGED <<widgetSettings, geometry, outbox, view, dirty>>
    /\ UNCHANGED NotContainer

\* mutant of FrameGeometry: the frame is computed from the previous
\* frame's geometry
FrameGeometryFromPrevious(ref, g, direction, delta) ==
    ComputeResizedGeometry(g, direction, delta)

\* part_010:144-148: newGeometry of onResize
FrameGeometry(ref, g, direction, delta) ==
    ComputeResizedGeometry(ref, direction, delta)

\* onResize (part_010:140-155), delta being cumulative since the start
ResizeFrame(delta) ==
    /\ gesture.kind = "resize"
    /\ gesture.frames < MaxFrames
    /\ IF resizeStartRef = Null
         THEN UNCHANGED <<geometry, dirty, view>>
         ELSE /\ geometry' = FrameGeometry(resizeStartRef, geometry,
                                          gesture.direction, delta)
              /\ dirty' = TRUE
              /\ view' = RenderOutput(widgetSettings, geometry')
    /\ gesture' = [gesture EXCEPT !.delta = delta, !.frames = @ + 1]
    /\ UNCHANGED <<widgetSettings, resizeStartRef, outbox>>
    /\ UNCHANGED NotContainer

\* mutant of StopGeometry: the local geometry is sent
StopGeometryFromState(ref, g, direction, delta) == g

\* part_010:166-170: newGeometry of onResizeStop
StopGeometry(ref, g, direction, delta) ==
    ComputeResizedGeometry(ref, direction, delta)

\* onResizeStop (part_010:157-175), delta being the final cumulative delta
ResizeStop(delta) ==
    /\ gesture.kind = "resize"
    /\ Len(outbox) < MaxPatches
    /\ outbox' = IF resizeStartRef = Null THEN outbox
                 ELSE Append(outbox, StopGeometry(resizeStartRef, geometry,
                                                  gesture.direction, delta))
    /\ gesture' = [NoGesture EXCEPT !.delta = delta]
    /\ UNCHANGED <<widgetSettings, geometry, resizeStartRef, view, dirty>>
    /\ UNCHANGED NotContainer

ContainerNext ==
    \/ \E entry \in SettingsEntries \cup {Null} : PushSettings(entry)
    \/ DragStart
    \/ \E position \in DragPositions : DragMove(position)
    \/ DragStop
    \/ \E direction \in Directions : ResizeStart(direction)
    \/ \E delta \in FrameDeltas : ResizeFrame(delta)
    \/ \E delta \in FrameDeltas : ResizeStop(delta)

SpecContainer == ContainerInit /\ [][ContainerNext]_allvars

ContainerTypeOK ==
    /\ widgetSettings \in SettingsEntries \cup {Null}
    /\ view \in {"null", "body"}
    /\ gesture.kind \in {"none", "drag", "resize"}
    /\ gesture.frames \in 0..MaxFrames
    /\ Len(outbox) <= MaxPatches
    /\ dirty \in BOOLEAN
    /\ view = "body" => geometry # Null

\* C16: the container renders the widget body exactly when a settings entry
\* exists for its id and the entry has isLoaded true; otherwise it renders
\* nothing.
C16_RendersIffLoaded ==
    (view = "body") <=> (widgetSettings # Null /\ widgetSettings.isLoaded)
\* settings with isLoaded true arrived after a drag had stopped, and the body
\* is rendered
C16_Witness ==
    /\ view = "body"
    /\ widgetSettings.isLoaded
    /\ Len(outbox) = 1
    /\ DOMAIN outbox[1] = {"x", "y"}
    /\ ~dirty

\* C17: immediately after each intermediate frame of a resize the local
\* geometry is computeResizedGeometry(snapshot at gesture start, direction,
\* that frame's cumulative delta), whatever the earlier frames were.
C17_FrameStep ==
    /\ gesture.kind = "resize"
    /\ gesture'.kind = "resize"
    /\ gesture'.frames = gesture.frames + 1
C17_FrameFromSnapshot ==
    [][C17_FrameStep =>
         geometry' = ComputeResizedGeometry(gesture.start, gesture.direction,
                                            gesture'.delta)]_allvars
C17_Witness ==
    /\ gesture.kind = "resize"
    /\ gesture.frames = 2
    /\ gesture.direction = "topLeft"
    /\ dirty
    /\ geometry.x # gesture.start.x
    /\ geometry.y # gesture.start.y

\* C18: the patch sent when a resize stops carries x, y, width and height of
\* computeResizedGeometry(snapshot at gesture start, direction, final
\* cumulative delta), whatever settings arrived during the gesture.
C18_StopStep ==
    /\ gesture.kind = "resize"
    /\ gesture'.kind = "none"
    /\ view' = "body"
C18_StopPatch ==
    [][C18_StopStep =>
         outbox' = Append(outbox,
             ComputeResizedGeometry(gesture.start, gesture.direction,
                                    gesture'.delta))]_allvars
\* a resize has stopped, and the local geometry, overwritten by settings, is
\* not what was sent
C18_Witness ==
    /\ gesture.kind = "none"
    /\ gesture.delta # Null
    /\ Len(outbox) = 1
    /\ DOMAIN outbox[1] = {"x", "y", "width", "height"}
    /\ view = "body"
    /\ ~dirty
    /\ outbox[1] # geometry
    /\ outbox[1] # resizeStartRef

\* C19: no patch is sent during a drag; when the drag stops exactly one patch
\* is sent, holding only x and y of the final position.
C19_DragStopStep ==
    /\ gesture.kind = "drag"
    /\ gesture'.kind = "none"
    /\ view' = "body"
C19_DragPatch ==
    [][/\ (gesture.kind = "drag" /\ gesture'.kind = "drag")
            => outbox' = outbox
       /\ C19_DragStopStep =>
            /\ Len(outbox') = Len(outbox) + 1
            /\ SubSeq(outbox', 1, Len(outbox)) = outbox
            /\ DOMAIN outbox'[Len(outbox')] = {"x", "y"}
            /\ outbox'[Len(outbox')].x = gesture.position.x
            /\ outbox'[Len(outbox')].y = gesture.position.y]_allvars
C19_Witness ==
    /\ gesture.kind = "none"
    /\ Len(outbox) = 1
    /\ DOMAIN outbox[1] = {"x", "y"}
    /\ dirty
    /\ geometry.x = outbox[1].x
    /\ geometry.y = outbox[1].y
    /\ geometry # GeometryOf(widgetSettings)

\* C20 as stated: whenever no gesture is in progress, the local geometry
\* equals x, y, width and height of the widget's settings entry.
C20_GeometryMirrorsSettings ==
    (gesture.kind = "none" /\ widgetSettings # Null)
        => geometry = GeometryOf(widgetSettings)
\* C20: whenever no gesture is in progress and no gesture callback has set
\* the local geometry since the settings entry last arrived, the local
\* geometry equals x, y, width and height of the entry.
C20_MirrorsUntilGesture ==
    (gesture.kind = "none" /\ widgetSettings # Null /\ ~dirty)
        => geometry = GeometryOf(widgetSettings)
\* a drag has stopped and an entry that arrived later was copied
C20_Witness ==
    /\ gesture.kind = "none"
    /\ widgetSettings # Null
    /\ ~dirty
    /\ Len(outbox) = 1
    /\ DOMAIN outbox[1] = {"x", "y"}
    /\ geometry.x # outbox[1].x

\* ======================================== stores replaced by push events
\* The manager's catalog listener and the settings listener: each stores the
\* payload of its event with zustand's setState(updater, replace).
\* ------------------------------------------------------------ bounds
\* the value of a key is in 1..MaxValue
MaxValue == 2

\* a snapshot: every key has a value or is absent
Snapshots == [StoreKeys -> 0..MaxValue]

\* zustand setState(partial, replace): the next state of the store.  Without
\* replace the keys of the partial state are assigned over the old state.
SetState(state, nextState, replace) ==
    IF replace THEN nextState
    ELSE [k \in StoreKeys |->
            IF nextState[k] # Absent THEN nextState[k] ELSE state[k]]

StoresInit ==
    /\ OnlyStores
    /\ catalogStore = [k \in StoreKeys |-> Absent]
    /\ settingsStore \in {s \in Snapshots : \A k \in StoreKeys : s[k] # Absent}
    /\ lastPush = NoPush

\* mutant of ManagerUpdateWidgetCatalog: setState without replace
ManagerUpdateWidgetCatalogMerge(payload) ==
    /\ catalogStore' = SetState(catalogStore, payload, FALSE)
    /\ lastPush' = [store |-> "catalog", payload |-> payload]
    /\ UNCHANGED settingsStore
    /\ UNCHANGED NotStores

\* manager useUpdateWidgetCatalogListener.ts:8-10
ManagerUpdateWidgetCatalog(payload) ==
    /\ catalogStore' = SetState(catalogStore, payload, TRUE)
    /\ lastPush' = [store |-> "catalog", payload |-> payload]
    /\ UNCHANGED settingsStore
    /\ UNCHANGED NotStores

\* useUpdateSettingsListener.ts:8-10
ReplaceSettings(payload) ==
    /\ settingsStore' = SetState(settingsStore, payload, TRUE)
    /\ lastPush' = [store |-> "settings", payload |-> payload]
    /\ UNCHANGED catalogStore
    /\ UNCHANGED NotStores

StoresNext ==
    \/ \E payload \in Snapshots : ManagerUpdateWidgetCatalog(payload)
    \/ \E payload \in Snapshots : ReplaceSettings(payload)

SpecStores == StoresInit /\ [][StoresNext]_allvars

\* C21: after a catalog or settings event has been processed the store of
\* that event equals the payload: keys absent from the payload are absent
\* from the store and no value of the previous state is kept.
C21_StoreIsPayload ==
    /\ lastPush.store = "catalog" => catalogStore = lastPush.payload
    /\ lastPush.store = "settings" => settingsStore = lastPush.payload
\* a key the store had is absent from the payload and from the store
C21_Witness ==
    /\ lastPush.store = "settings"
    /\ \E k \in StoreKeys : lastPush.payload[k] = Absent
    /\ \E k \in StoreKeys : lastPush.payload[k] # Absent
    /\ \E k \in StoreKeys : catalogStore[k] # Absent

\* ================================================================ useLogs
\* ------------------------------------------------------------ bounds
\* refresh and fetchMore are called at most MaxCalls times
MaxCalls == 4
\* the backend has LogLen log entries, numbered from 1
LogLen == 3

\* the pageSize prop
PageSize == 1

\* what the backend command returns for a cursor: the entries after the
\* offset, one page of them, and the cursor of the page after it
Page(c) ==
    LET end == IF c + PageSize < LogLen THEN c + PageSize ELSE LogLen
    IN [entries |-> [k \in 1..(end - c) |-> c + k],
        cursor |-> IF end < LogLen THEN end ELSE NoCursor,
        hasMore |-> end < LogLen]

\* mutant of IsCurrent: the result of every fetch is applied
IsCurrentAlways(fetchId) == TRUE

\* fetchId === fetchIdRef.current (part_023:37, 45)
IsCurrent(fetchId) == fetchId = fetchIdRef

\* mutant of NextEntries: the page replaces the loaded entries
NextEntriesReplaced(prev, page, replace) == page.entries

\* the updater of setEntries (part_023:38-40)
NextEntries(prev, page, replace) ==
    IF replace THEN page.entries ELSE prev \o page.entries

\* mutant of FetchingAfterFailure: isFetching is reset on success only
FetchingAfterFailureKept(fetchId) == isFetching

\* the finally block (part_023:44-48) when the command has failed
FetchingAfterFailure(fetchId) ==
    IF IsCurrent(fetchId) THEN FALSE ELSE isFetching

LogsInit == OnlyLogs /\ LogsIdle

\* fetchLogs(c, replace) up to its await (part_023:18-32)
FetchLogs(c, replace) ==
    /\ fetchIdRef' = fetchIdRef + 1
    /\ isFetching' = TRUE
    /\ IF replace
         THEN /\ entries' = <<>>
              /\ cursor' = NoCursor
              /\ hasMore' = FALSE
         ELSE UNCHANGED <<entries, cursor, hasMore>>
    /\ inflight' = inflight \cup
          {[fetchId |-> fetchIdRef + 1, cursor |-> c, replace |-> replace]}

\* refresh (part_023:59-61); also the initial refresh of line 63
Refresh ==
    /\ calls < MaxCalls
    /\ calls' = calls + 1
    /\ lastOp' = "refresh"
    /\ FetchLogs(NoCursor, TRUE)
    /\ UNCHANGED NotLogs

\* fetchMore (part_023:53-57)
FetchMore ==
    /\ calls < MaxCalls
    /\ calls' = calls + 1
    /\ lastOp' = "fetchMore"
    /\ IF ~isFetching /\ hasMore /\ cursor # NoCursor
         THEN FetchLogs(cursor, FALSE)
         ELSE UNCHANGED <<fetchIdRef, entries, cursor, hasMore, isFetching,
                          inflight>>
    /\ UNCHANGED NotLogs

\* the command resolves: fetchLogs from its await to its end
\* (part_023:37-48)
FetchResolved(f) ==
    /\ f \in inflight
    /\ inflight' = inflight \ {f}
    /\ lastOp' = "resolved"
    /\ IF IsCurrent(f.fetchId)
         THEN /\ entries' = NextEntries(entries, Page(f.cursor), f.replace)
              /\ cursor' = Page(f.cursor).cursor
              /\ hasMore' = Page(f.cursor).hasMore
              /\ isFetching' = FALSE
         ELSE UNCHANGED <<entries, cursor, hasMore, isFetching>>
    /\ UNCHANGED <<fetchIdRef, calls>>
    /\ UNCHANGED NotLogs

\* the command rejects: only the finally block runs (part_023:44-48)
FetchRejected(f) ==
    /\ f \in inflight
    /\ inflight' = inflight \ {f}
    /\ lastOp' = "rejected"
    /\ isFetching' = FetchingAfterFailure(f.fetchId)
    /\ UNCHANGED <<entries, cursor, hasMore, fetchIdRef, calls>>
    /\ UNCHANGED NotLogs

\* every fetchLogs call that can be suspended
Fetches == [fetchId : 1..MaxCalls, cursor : 0..LogLen, replace : BOOLEAN]

LogsNext ==
    \/ Refresh
    \/ FetchMore
    \/ \E f \in Fetches : FetchResolved(f)
    \/ \E f \in Fetches : FetchRejected(f)

SpecLogs == LogsInit /\ [][LogsNext]_allvars

\* the backend answers every command, with a page or with an error
SpecLogsFair ==
    /\ SpecLogs
    /\ \A f \in Fetches : WF_allvars(FetchResolved(f) \/ FetchRejected(f))

\* the last started fetch has not settled
LatestPending == \E f \in inflight : f.fetchId = fetchIdRef

\* C26: fetchMore called with hasMore, a cursor and no fetch in flight
\* requests the page at the current cursor and leaves the loaded entries as
\* they are, and when that page arrives its entries are appended after them;
\* called in any other state, fetchMore changes nothing.
C26_Called == calls' = calls + 1 /\ lastOp' = "fetchMore"
C26_Ready == hasMore /\ cursor # NoCursor /\ ~LatestPending
C26_Appended(f) ==
    /\ lastOp' = "resolved"
    /\ inflight' = inflight \ {f}
    /\ ~f.replace
    /\ f.fetchId = fetchIdRef
C26_FetchMore ==
    [][/\ (C26_Called /\ C26_Ready) =>
            /\ inflight' = inflight \cup
                  {[fetchId |-> fetchIdRef', cursor |-> cursor,
                    replace |-> FALSE]}
            /\ inflight' # inflight
            /\ entries' = entries
       /\ (C26_Called /\ ~C26_Ready) =>
            UNCHANGED <<fetchIdRef, entries, cursor, hasMore, isFetching,
                        inflight>>
       /\ \A f \in inflight : C26_Appended(f) =>
            /\ Len(entries') = Len(entries) + Len(Page(f.cursor).entries)
            /\ SubSeq(entries', 1, Len(entries)) = entries
            /\ SubSeq(entries', Len(entries) + 1, Len(entries')) =
                  Page(f.cursor).entries]_allvars
C26_Witness ==
    /\ entries = <<1, 2>>
    /\ lastOp = "resolved"
    /\ cursor = 2
    /\ hasMore
    /\ ~isFetching

\* C27: isFetching always returns to false, whether the fetches succeed or
\* fail and however refresh and fetchMore calls overlap, given that every
\* fetch settles.
C27_FetchingEnds == isFetching ~> ~isFetching
\* a fetch that was superseded and a fetch that failed have both settled
C27_Witness ==
    /\ ~isFetching
    /\ lastOp = "rejected"
    /\ fetchIdRef >= 2
    /\ inflight = {}

\* C28: a fetch that settles after a newer fetch was started changes none of
\* entries, cursor, hasMore and isFetching; the fetch started last is
\* applied.
C28_Settled(f) == f \in inflight /\ inflight' = inflight \ {f}
C28_StaleDiscarded ==
    [][\A f \in Fetches : C28_Settled(f) =>
         /\ f.fetchId # fetchIdRef =>
               UNCHANGED <<entries, cursor, hasMore, isFetching>>
         /\ (f.fetchId = fetchIdRef /\ lastOp' = "resolved") =>
               /\ cursor' = Page(f.cursor).cursor
               /\ hasMore' = Page(f.cursor).hasMore
               /\ ~isFetching']_allvars
\* a superseded fetch settled while the newer one was still pending
C28_Witness ==
    /\ lastOp = "resolved"
    /\ isFetching
    /\ LatestPending
    /\ Cardinality(inflight) = 1
    /\ fetchIdRef >= 2
    /\ entries = <<>>

\* ========================================== the error boundary per widget
\* One WidgetContainer per id of the widgets store; each wraps its own
\* <Widget> in an ErrorBoundary (part_010:228-246).
\* ------------------------------------------------------------ bounds
\* onRenderError is called at most MaxRenderErrors times
MaxRenderErrors == 3

BoundariesInit == OnlyBoundaries /\ BoundariesIdle

\* a container is rendered for an id and shows its widget
ShowWidget(a) ==
    /\ treeMounted
    /\ shown[a] = "none"
    /\ shown' = [shown EXCEPT ![a] = "widget"]
    /\ UNCHANGED <<renderErrors, treeMounted>>
    /\ UNCHANGED NotBoundaries

\* the container of an id is no longer rendered
HideWidget(a) ==
    /\ shown[a] # "none"
    /\ shown' = [shown EXCEPT ![a] = "none"]
    /\ UNCHANGED <<renderErrors, treeMounted>>
    /\ UNCHANGED NotBoundaries

\* mutant of Escapes: <Widget> is rendered outside any boundary
EscapesAlways(a) == TRUE

\* an exception raised while rendering <Widget> of a leaves the boundary of
\* a: never, <Widget> is a child of the ErrorBoundary (part_010:228-246)
Escapes(a) == FALSE

\* Rendering <Widget> of a throws.  The boundary calls onError
\* (part_010:177-186) and renders the fallback; an exception that no boundary
\* catches unmounts the whole tree.
RenderThrows(a) ==
    /\ treeMounted
    /\ shown[a] = "widget"
    /\ Len(renderErrors) < MaxRenderErrors
    /\ IF Escapes(a)
         THEN /\ treeMounted' = FALSE
              /\ shown' = [i \in Ids |-> "none"]
              /\ UNCHANGED renderErrors
         ELSE /\ shown' = [shown EXCEPT ![a] = "fallback"]
              /\ renderErrors' = Append(renderErrors, a)
              /\ UNCHANGED treeMounted
    /\ UNCHANGED NotBoundaries

\* resetKeys={[Widget]}: the component of a changes and the boundary of a
\* renders its child again
ResetBoundary(a) ==
    /\ shown[a] = "fallback"
    /\ shown' = [shown EXCEPT ![a] = "widget"]
    /\ UNCHANGED <<renderErrors, treeMounted>>
    /\ UNCHANGED NotBoundaries

BoundariesNext ==
    \E a \in Ids :
        \/ ShowWidget(a)
        \/ HideWidget(a)
        \/ RenderThrows(a)
        \/ ResetBoundary(a)

SpecBoundaries == BoundariesInit /\ [][BoundariesNext]_allvars

MaxMounts == 1

\* the hooks of the node: useUpdateSettingsListener and a setup task hook
Hooks == {"settings", "catalog"}

\* listen: the promise returned by listen; chain: the promise chain made by
\* the cleanup; active: the callback is registered with the event system
NewSub == [listen |-> "pending", chain |-> "none", active |-> FALSE]

SubscriptionsInit == OnlySubscriptions /\ SubscriptionsIdle

\* the effects of the hooks run (useUpdateSettingsListener.ts:7-10,
\* createSetupTaskHook.ts:41-44)
Mount ==
    /\ Len(mounts) < MaxMounts
    /\ mounts # <<>> => ~mounts[Len(mounts)].mounted
    /\ mounts' = Append(mounts,
                        [mounted |-> TRUE, sub |-> [h \in Hooks |-> NewSub]])
    /\ UNCHANGED handled
    /\ UNCHANGED NotSubscriptions

\* the listen promise resolves with the unlisten function
ListenResolved(m, h) ==
    /\ m \in 1..Len(mounts)
    /\ mounts[m].sub[h].listen = "pending"
    /\ mounts' = [mounts EXCEPT ![m].sub[h].listen = "resolved",
                                ![m].sub[h].active = TRUE]
    /\ UNCHANGED handled
    /\ UNCHANGED NotSubscriptions

\* the listen promise rejects: nothing was registered
ListenRejected(m, h) ==
    /\ m \in 1..Len(mounts)
    /\ mounts[m].sub[h].listen = "pending"
    /\ mounts' = [mounts EXCEPT ![m].sub[h].listen = "rejected"]
    /\ UNCHANGED handled
    /\ UNCHANGED NotSubscriptions

\* mutant of ChainOnCleanup: the cleanup calls the unlisten function only if
\* the promise has already resolved
ChainOnCleanupIfResolved(sub) ==
    IF sub.listen = "resolved" THEN "attached" ELSE "done"

\* the cleanup: unlisten.then((f) => f()).catch(...) is attached whatever
\* the state of the promise (useUpdateSettingsListener.ts:12-14,
\* createSetupTaskHook.ts:46-51)
ChainOnCleanup(sub) == "attached"

\* The node unmounts: the cleanup of every hook's effect runs.
Unmount ==
    /\ mounts # <<>>
    /\ mounts[Len(mounts)].mounted
    /\ LET old == mounts[Len(mounts)].sub
       IN  mounts' = [mounts EXCEPT ![Len(mounts)] =
             [mounted |-> FALSE,
              sub |-> [h \in Hooks |->
                         [old[h] EXCEPT !.chain = ChainOnCleanup(old[h])]]]]
    /\ UNCHANGED handled
    /\ UNCHANGED NotSubscriptions

\* mutant of ChainAfterFailure: the chain has no catch
ChainAfterFailureNoCatch == "unhandled"

\* .catch(logger.error): the rejection is logged and the chain fulfils
ChainAfterFailure == "logged"

\* The chain runs once the listen promise has settled.  A resolved promise
\* gives f, and f() unsubscribes or fails; when f fails, whether the callback
\* is still registered is not known.  A rejected promise skips f.
RunChain(m, h) ==
    /\ m \in 1..Len(mounts)
    /\ mounts[m].sub[h].chain = "attached"
    /\ mounts[m].sub[h].listen # "pending"
    /\ IF mounts[m].sub[h].listen = "rejected"
         THEN mounts' = [mounts EXCEPT ![m].sub[h].chain = ChainAfterFailure]
         ELSE \/ mounts' = [mounts EXCEPT ![m].sub[h].chain = "done",
                                          ![m].sub[h].active = FALSE]
              \/ \E kept \in BOOLEAN :
                    mounts' = [mounts EXCEPT
                                 ![m].sub[h].chain = ChainAfterFailure,
                                 ![m].sub[h].active = kept]
    /\ UNCHANGED handled
    /\ UNCHANGED NotSubscriptions

\* The backend emits the event of hook h: every registered callback of h
\* runs and replaces the store.
Emit(h) ==
    /\ handled' = {<<m, h>> : m \in {k \in 1..Len(mounts) :
                                        mounts[k].sub[h].active}}
    /\ UNCHANGED mounts
    /\ UNCHANGED NotSubscriptions

SubscriptionsNext ==
    \/ Mount
    \/ Unmount
    \/ \E m \in 1..MaxMounts, h \in Hooks : ListenResolved(m, h)
    \/ \E m \in 1..MaxMounts, h \in Hooks : ListenRejected(m, h)
    \/ \E m \in 1..MaxMounts, h \in Hooks : RunChain(m, h)
    \/ \E h \in Hooks : Emit(h)

SpecSubscriptions == SubscriptionsInit /\ [][SubscriptionsNext]_allvars

\* every listen promise settles, and a chain whose promise has settled runs
SpecSubscriptionsFair ==
    /\ SpecSubscriptions
    /\ \A m \in 1..MaxMounts, h \in Hooks :
          /\ WF_allvars(ListenResolved(m, h) \/ ListenRejected(m, h))
          /\ WF_allvars(RunChain(m, h))

Unmounted(m) == m <= Len(mounts) /\ ~mounts[m].mounted
\* the unlisten function was called and failed
UnlistenFailed(m, h) ==
    /\ mounts[m].sub[h].listen = "resolved"
    /\ mounts[m].sub[h].chain = "logged"
\* the unlisten function was called and returned
Unsubscribed(m, h) == m <= Len(mounts) /\ mounts[m].sub[h].chain = "done"

\* C22: after a mount has been unmounted, each of its listeners is
\* eventually unsubscribed, also when the unmount came before the listen
\* promise settled (unless the unlisten call itself fails); a listener that
\* has been unsubscribed no longer runs for any event.
C22_EventuallyUnsubscribed ==
    /\ \A m \in 1..MaxMounts, h \in Hooks :
          Unmounted(m) ~> (Unmounted(m) /\ (~mounts[m].sub[h].active
                                                \/ UnlistenFailed(m, h)))
    /\ [][\A m \in 1..MaxMounts, h \in Hooks :
            (Unsubscribed(m, h) /\ handled' # handled)
                => <<m, h>> \notin handled']_allvars
\* the node was unmounted before the catalog listener was registered; the
\* settings listener ran for an event and has been unsubscribed since
C22_Witness ==
    /\ Unmounted(1)
    /\ Unsubscribed(1, "settings")
    /\ mounts[1].sub["catalog"].listen = "pending"
    /\ mounts[1].sub["catalog"].chain = "attached"
    /\ handled = {<<1, "settings">>}

\* C25: a failure of the unsubscription (the listen promise rejected, or the
\* unlisten function failed) ends logged, never as an unhandled rejection,
\* and the cleanup of every listener of an unmounted node has been started
\* whatever happened to the others.
C25_FailureLogged ==
    \A m \in 1..Len(mounts), h \in Hooks :
        /\ mounts[m].sub[h].chain # "unhandled"
        /\ (mounts[m].sub[h].listen = "rejected"
              /\ mounts[m].sub[h].chain \notin {"none", "attached"})
             => mounts[m].sub[h].chain = "logged"
        /\ ~mounts[m].mounted =>
              mounts[m].sub[h].chain \in {"attached", "done", "logged"}
\* one listener's unlisten failed and was logged, and the other listener
\* was unsubscribed all the same
C25_Witness ==
    /\ Unmounted(1)
    /\ UnlistenFailed(1, "settings")
    /\ Unsubscribed(1, "catalog")

\* ==================================================== catalog listeners
\* The canvas has two listeners of the catalog update event,
\* useUpdateWidgetCatalogListener.ts and useUpdateWidgetsListener.ts; one of
\* them is mounted.  Both filter the store entries by the keys of the
\* payload and write the store only when the filter dropped an entry; the
\* second also assigns the settings of the payload to the entries it keeps.
\* ------------------------------------------------------------ bounds
\* settings snapshots are 1..MaxSetting
MaxSetting == 2

ListenerFiles == {"useUpdateWidgetCatalogListener.ts",
                  "useUpdateWidgetsListener.ts"}
\* event.payload: id -> settings, 0 where the id is not a key
CatalogPayloads == [Ids -> 0..MaxSetting]

CatalogInit ==
    /\ OnlyCatalog
    /\ tracked = [i \in Ids |-> NotTracked]
    /\ lastCatalogEvent = NoCatalogEvent
    /\ listenerFile \in ListenerFiles

\* The render listener writes the entry of id i; the fields it does not
\* name are kept.
RenderStored(i) ==
    /\ tracked' = [tracked EXCEPT ![i].present = TRUE]
    /\ lastCatalogEvent' = NoCatalogEvent
    /\ UNCHANGED listenerFile
    /\ UNCHANGED NotCatalog

\* Object.entries(useWidgetsStore.getState())
TrackedIds == {i \in Ids : tracked[i].present}
\* the filter callback: `id in event.payload`
RemainingWidgets(payload) == {i \in TrackedIds : payload[i] # 0}

\* The entries after the loop over remainingWidgets.  Object.entries gives
\* the entry objects of the store itself, so `widget.settings = ...` of
\* useUpdateWidgetsListener.ts:26-31 changes the entry in the store.
EntriesAfterLoop(payload) ==
    IF listenerFile = "useUpdateWidgetsListener.ts"
    THEN [i \in Ids |->
            IF i \in RemainingWidgets(payload)
            THEN [tracked[i] EXCEPT !.settings = payload[i]]
            ELSE tracked[i]]
    ELSE tracked

\* `remainingWidgets.length !== widgets.length`
StoreWritten(payload) == RemainingWidgets(payload) # TrackedIds

\* The listener of the catalog update event.
CatalogEvent(payload) ==
    /\ tracked' =
          IF StoreWritten(payload)
          THEN [i \in Ids |-> IF i \in RemainingWidgets(payload)
                               THEN EntriesAfterLoop(payload)[i]
                               ELSE NotTracked]
          ELSE EntriesAfterLoop(payload)
    /\ lastCatalogEvent' =
          [kind |-> IF StoreWritten(payload) THEN "written" ELSE "skipped",
           before |-> tracked]
    /\ UNCHANGED listenerFile
    /\ UNCHANGED NotCatalog

CatalogNext ==
    \/ \E i \in Ids : RenderStored(i)
    \/ \E payload \in CatalogPayloads : CatalogEvent(payload)

SpecCatalog == CatalogInit /\ [][CatalogNext]_allvars

\* C32: when the catalog listener has skipped the store write (no tracked
\* widget was removed), the store holds what it held before the event,
\* entry by entry and field by field.
C32_SkippedWriteLosesNothing ==
    lastCatalogEvent.kind = "skipped" => tracked = lastCatalogEvent.before

\* ========================================================= setup tasks
\* createSetupTaskHook.ts: every hook made by createSetupTaskHook registers
\* its task when its module is evaluated; the effect of the hook calls
\* onMount (the listen call of the listener hooks), then completes the task.
\* ------------------------------------------------------------ bounds
\* effect runs of the setup task hooks in one behaviour
MaxSetupMounts == 3

SetupInit == OnlySetup /\ SetupIdle

\* register (lines 8-13), called by createSetupTaskHook (line 38); a task
\* that is already registered throws
Register(t) ==
    /\ t \notin tasks
    /\ tasks' = tasks \cup {t}
    /\ UNCHANGED <<ready, hooks, setupMounts, lastIssue>>
    /\ UNCHANGED NotSetup

\* line 16
ReadyAfterComplete(t) == ready \cup {t}
\* line 17: `this.ready.size === this.tasks.size`
AllReady(r) == Cardinality(r) = Cardinality(tasks)

\* the tasks whose hook is mounted, and those whose listen promise has
\* resolved, given the hooks h
MountedTasks(h) == {t \in tasks : h[t].mounted}
SubscribedTasks(h) == {t \in tasks : h[t].listen = "resolved"}

\* The effect of the hook of task t (lines 41-44): onMount() returns the
\* pending listen promise, then complete(t) runs in the same step and
\* issues completeSetup when the sizes match (lines 15-20).
MountHook(t) ==
    /\ t \in tasks
    /\ ~hooks[t].mounted
    /\ setupMounts < MaxSetupMounts
    /\ setupMounts' = setupMounts + 1
    /\ hooks' = [hooks EXCEPT ![t] = [mounted |-> TRUE, listen |-> "pending"]]
    /\ ready' = ReadyAfterComplete(t)
    /\ lastIssue' = IF AllReady(ready')
                    THEN [issued |-> TRUE, tasks |-> tasks,
                          mounted |-> MountedTasks(hooks'),
                          subscribed |-> SubscribedTasks(hooks')]
                    ELSE lastIssue
    /\ UNCHANGED tasks
    /\ UNCHANGED NotSetup

\* mutant of ReadyAfterUncomplete: the task stays ready
ReadyAfterUncompleteKept(t) == ready
\* line 23
ReadyAfterUncomplete(t) == ready \ {t}

\* The cleanup of the effect (lines 46-51): uncomplete(t), then onUnmount
\* with the listen promise, which ends the subscription of this mount.
UnmountHook(t) ==
    /\ hooks[t].mounted
    /\ hooks' = [hooks EXCEPT ![t] = NoHook]
    /\ ready' = ReadyAfterUncomplete(t)
    /\ UNCHANGED <<tasks, setupMounts, lastIssue>>
    /\ UNCHANGED NotSetup

\* The listen promise of the mounted hook of task t settles.
HookListenSettled(t, outcome) ==
    /\ hooks[t].mounted
    /\ hooks[t].listen = "pending"
    /\ hooks' = [hooks EXCEPT ![t].listen = outcome]
    /\ UNCHANGED <<tasks, ready, setupMounts, lastIssue>>
    /\ UNCHANGED NotSetup

SetupNext ==
    \/ \E t \in TaskNames : Register(t)
    \/ \E t \in TaskNames : MountHook(t)
    \/ \E t \in TaskNames : UnmountHook(t)
    \/ \E t \in TaskNames, outcome \in {"resolved", "rejected"} :
          HookListenSettled(t, outcome)

SpecSetup == SetupInit /\ [][SetupNext]_allvars

\* C33: completeSetup is issued only in a state where the hook of every
\* registered setup task is mounted (mounted and not unmounted since),
\* whatever mounts and unmounts came before.
C33_IssuedWhenAllComplete ==
    lastIssue.issued => lastIssue.mounted = lastIssue.tasks
\* issued with both tasks registered, after a hook was unmounted and
\* mounted again
C33_Witness ==
    /\ lastIssue.issued
    /\ lastIssue.tasks = TaskNames
    /\ setupMounts = MaxSetupMounts

\* C34: in the state where completeSetup is issued, the listen promise of
\* every registered setup task has resolved (its listener is subscribed).
C34_IssuedWhenAllSubscribed ==
    lastIssue.issued => lastIssue.subscribed = lastIssue.tasks

\* =================================================== renderWidgets event
\* useRenderWidgetsListener.tsx: one event carries a report for several
\* ids.  The listener reads the store once (line 14) and maps every entry of
\* the payload to an async function; each runs up to its `await import` (or
\* to its return, for a bundling error) before the next one starts, and the
\* continuations run later, one by one.
BatchEntries == [id : Ids, code : Codes]
\* event.payload, in the order of Object.entries: ids are distinct keys
Batches ==
    {<<e>> : e \in BatchEntries}
      \cup {p \in BatchEntries \X BatchEntries : p[1].id # p[2].id}

LoaderState == [widgets |-> widgets, blobs |-> blobs, pending |-> pending,
                hist |-> hist]

\* One entry of the payload (lines 16-65) applied to the state s, with the
\* store as read at the start of the listener (widgets0).
RenderEntry(s, widgets0, e) ==
    LET id == e.id
        known == widgets0[id] # NoEntry
        b1 == IF known
              THEN IF widgets0[id].moduleBlobUrl # Undefined
                   THEN RevokeObjectURL(s.blobs, widgets0[id].moduleBlobUrl)
                   ELSE s.blobs
              ELSE CreateObjectURL(s.blobs, "apis", id)
        apisBlobUrl == IF known THEN widgets0[id].apisBlobUrl
                       ELSE Len(s.blobs) + 1
        prev == IF s.widgets[id] # NoEntry THEN s.widgets[id].apisBlobUrl
                ELSE Undefined
        clean == /\ s.widgets[id] = NoEntry
                 /\ \A u \in 1..Len(s.blobs) :
                       s.blobs[u].id = id => s.blobs[u].revoked # 0
    IN IF e.code.type = "err"
       THEN [s EXCEPT
               !.widgets[id] = BundlingErrorState(id, apisBlobUrl),
               !.blobs = b1,
               !.hist[id] = Append(@, Event("err", apisBlobUrl, Undefined,
                                            prev, clean))]
       ELSE LET moduleBlobUrl == Len(b1) + 1
            IN [s EXCEPT
                  !.blobs = CreateObjectURL(b1, "module", id),
                  !.pending = @ \cup {[id |-> id,
                                       apisBlobUrl |-> apisBlobUrl,
                                       moduleBlobUrl |-> moduleBlobUrl]},
                  !.hist[id] = Append(@, Event("ok", apisBlobUrl,
                                               moduleBlobUrl, prev, clean))]

\* mutant of RenderBatch: a bundling error ends the whole listener
RECURSIVE RenderBatchStopAtErr(_, _, _)
RenderBatchStopAtErr(s, widgets0, payload) ==
    IF payload = <<>> THEN s
    ELSE IF Head(payload).code.type = "err"
         THEN RenderEntry(s, widgets0, Head(payload))
         ELSE RenderBatchStopAtErr(RenderEntry(s, widgets0, Head(payload)),
                                   widgets0, Tail(payload))
\* Object.entries(event.payload).map(async ...) (lines 16-100)
RECURSIVE RenderBatch(_, _, _)
RenderBatch(s, widgets0, payload) ==
    IF payload = <<>> THEN s
    ELSE RenderBatch(RenderEntry(s, widgets0, Head(payload)), widgets0,
                     Tail(payload))

\* The listener from its start to the suspension of its last entry.
RenderWidgets(payload) ==
    /\ ReportCount + Len(payload) <= MaxReports
    /\ LET r == RenderBatch(LoaderState, widgets, payload)
       IN /\ widgets' = r.widgets
          /\ blobs' = r.blobs
          /\ pending' = r.pending
          /\ hist' = r.hist
    /\ batch' = payload
    /\ UNCHANGED settings

BatchInit == Init /\ OnlyListeners

\* a continuation of an entry settles (lines 65-99)
ImportSettles ==
    /\ \E l \in pending : ImportResolved(l) \/ ImportRejected(l)
    /\ UNCHANGED batch

BatchNext ==
    \/ \E payload \in Batches : RenderWidgets(payload)
    \/ ImportSettles
    \/ \E payload \in SUBSET Ids : UpdateWidgetCatalog(payload) /\ UNCHANGED batch
    \/ \E payload \in SettingsPayloads : UpdateSettings(payload) /\ UNCHANGED batch

SpecBatch == BatchInit /\ [][BatchNext /\ UNCHANGED NotBatch]_allvars

\* every module load settles: an import resolves or rejects
SpecBatchFair ==
    SpecBatch /\ WF_allvars(ImportSettles /\ UNCHANGED NotBatch)

\* a module URL is the number of a blob, and a report makes at most two
UrlBound == 2 * MaxReports
Loading(u) == \E l \in pending : l.moduleBlobUrl = u
TerminalKind(t) ==
    IF t = "err" THEN "bundlingError"
    ELSE IF t = "loaded" THEN "module" ELSE "importError"

\* C35: every report of a render event, alone or in a batch, gets its store
\* write.  When the event is processed, every entry with a bundling error has
\* its error display stored and every other entry has its module load
\* started, whatever the other entries of the batch are; every load that has
\* started eventually settles, and the step in which it settles stores the
\* module or the import error display for its id.
C35_EveryReportWritten ==
    /\ \A u \in 1..UrlBound : Loading(u) ~> ~Loading(u)
    /\ [][/\ batch' # batch =>
               \A k \in 1..Len(batch') :
                  LET e == batch'[k]
                  IN IF e.code.type = "err"
                     THEN widgets'[e.id].component = BundlingError
                     ELSE \E l \in pending' \ pending : l.id = e.id
          /\ \A i \in Ids :
               (/\ Len(hist'[i]) > Len(hist[i])
                /\ Last(hist'[i]).t \in {"err", "loaded", "failed"})
                  => /\ Len(hist'[i]) = Len(hist[i]) + 1
                     /\ widgets'[i] # NoEntry
                     /\ widgets'[i].component.kind
                           = TerminalKind(Last(hist'[i]).t)]_allvars
\* a batch with a bundling error for its first id and a module for its
\* second: the first id shows the bundling error, the load of the second
\* has failed and the second shows the import error
C35_Witness ==
    /\ Len(batch) = 2
    /\ batch[1].code.type = "err"
    /\ batch[2].code.type = "ok"
    /\ widgets[batch[1].id].component = BundlingError
    /\ Last(hist[batch[2].id]).t = "failed"
    /\ widgets[batch[2].id].component = ImportError
    /\ pending = {}

\* ======================================================= store providers
\* WidgetsStoreProvider (part_035) and SettingsStoreProvider (part_037):
\* the first effect reads the snapshot of the backend and creates the store
\* from it; the second effect, which runs once the store is set, registers
\* the listener that replaces the store by the payload of every update
\* event.
\* ------------------------------------------------------------ bounds
\* the backend changes each of its snapshots at most MaxUpdates times
MaxUpdates == 3

ProviderInit == OnlyProvider /\ ProviderIdle

\* first effect (lines 24-35): create() sends the read command
ProviderMount(p) ==
    /\ read[p].state = "idle"
    /\ read' = [read EXCEPT ![p].state = "sent"]
    /\ UNCHANGED <<backend, provStore, listener>>
    /\ UNCHANGED NotProvider

\* the backend answers the read command with its snapshot of that moment
ReadServed(p) ==
    /\ read[p].state = "sent"
    /\ read' = [read EXCEPT ![p] = [state |-> "served", value |-> backend[p]]]
    /\ UNCHANGED <<backend, provStore, listener>>
    /\ UNCHANGED NotProvider

\* the continuation of `await ...read()` (lines 28-32): createStore(() =>
\* widgets), setStore(newStore)
ReadResolved(p) ==
    /\ read[p].state = "served"
    /\ read' = [read EXCEPT ![p].state = "done"]
    /\ provStore' = [provStore EXCEPT ![p] = read[p].value]
    /\ UNCHANGED <<backend, listener>>
    /\ UNCHANGED NotProvider

\* the read command fails: create().catch(logger.error) (line 35)
ReadRejected(p) ==
    /\ read[p].state = "sent"
    /\ read' = [read EXCEPT ![p].state = "failed"]
    /\ UNCHANGED <<backend, provStore, listener>>
    /\ UNCHANGED NotProvider

\* second effect, after the render that follows setStore (lines 42-49)
ListenEffect(p) ==
    /\ provStore[p] # NoStore
    /\ listener[p] = "none"
    /\ listener' = [listener EXCEPT ![p] = "requested"]
    /\ UNCHANGED <<backend, read, provStore>>
    /\ UNCHANGED NotProvider

\* the registration of the listener completes, or fails
ListenerSettled(p, outcome) ==
    /\ listener[p] = "requested"
    /\ listener' = [listener EXCEPT ![p] = outcome]
    /\ UNCHANGED <<backend, read, provStore>>
    /\ UNCHANGED NotProvider

\* the callback of the listener (line 48)
StoreAfterEvent(p, payload) ==
    IF listener[p] = "registered" THEN payload ELSE provStore[p]

\* The backend changes its snapshot and emits the update event with the
\* new snapshot; the event reaches the listeners registered at that moment.
BackendUpdate(p) ==
    /\ backend[p] < MaxUpdates
    /\ backend' = [backend EXCEPT ![p] = @ + 1]
    /\ provStore' = [provStore EXCEPT
                       ![p] = StoreAfterEvent(p, backend[p] + 1)]
    /\ UNCHANGED <<read, listener>>
    /\ UNCHANGED NotProvider

ProviderNext ==
    \/ \E p \in Providers : ProviderMount(p)
    \/ \E p \in Providers : ReadServed(p)
    \/ \E p \in Providers : ReadResolved(p)
    \/ \E p \in Providers : ReadRejected(p)
    \/ \E p \in Providers : ListenEffect(p)
    \/ \E p \in Providers, outcome \in {"registered", "rejected"} :
          ListenerSettled(p, outcome)
    \/ \E p \in Providers : BackendUpdate(p)

SpecProvider == ProviderInit /\ [][ProviderNext]_allvars

\* the backend answers, promise continuations and effects run, and the
\* registration settles; the backend is free never to change again
SpecProviderFair ==
    /\ SpecProvider
    /\ \A p \in Providers :
          /\ WF_allvars(ReadServed(p))
          /\ WF_allvars(ReadResolved(p))
          /\ WF_allvars(ListenEffect(p))
          /\ WF_allvars(\E outcome \in {"registered", "rejected"} :
                           ListenerSettled(p, outcome))

\* C36: once a provider has created its store from the initial read, the
\* store eventually equals the snapshot of the backend (unless the
\* registration of the listener itself fails): no update made between the
\* read and the completion of the registration is lost.
C36_StoreCatchesUp ==
    \A p \in Providers :
        (provStore[p] # NoStore)
            ~> (provStore[p] = backend[p] \/ listener[p] = "rejected")

TypeOK ==
    /\ \A i \in Ids : widgets[i] = NoEntry \/ widgets[i].apisBlobUrl \in Urls
    /\ settings \in SettingsPayloads
    /\ \A l \in pending : l.moduleBlobUrl \in Urls /\ l.apisBlobUrl \in Urls
====
